---- MODULE Spec2Model ----
(***************************************************************************)
(* A model of occlude, an implementation of the OPAQUE aPAKE protocol.     *)
(*                                                                         *)
(* The ristretto255 group is modelled by the additive group Z_Q of a small *)
(* prime order Q: an Element is its discrete logarithm to the base g, a    *)
(* Scalar is an exponent.  Hash functions, the password KDF, HKDF, the PRF *)
(* and HMAC are modelled as free (injective) constructors over their       *)
(* inputs, so two digests are equal exactly when their inputs are.         *)
(* randomScalar() reduces 64 uniform bytes modulo the group order; the     *)
(* result 0 has probability 2^-252 and is left out, as digest collisions   *)
(* are.                                                                    *)
(*                                                                         *)
(* Every value an operation returns is kept on record (infos, regs,        *)
(* usrSessions, svrSessions), so that a later call can be made with any    *)
(* earlier result: a stale one, the same one twice, or one altered on the  *)
(* wire (forged).  ret holds the results of the last call.                 *)
(*                                                                         *)
(* Spec is the protocol with its calls one after another.  SpecOprf and    *)
(* SpecKe run the OPRF and the key exchange on their own over all scalars  *)
(* of the group, zero included; SpecRace runs two Server.Register calls    *)
(* that overlap, step by step.                                             *)
(***************************************************************************)
EXTENDS Integers, FiniteSets, Sequences, TLC

\* ------------------------------------------------------------------ bounds
\* Order of the (scaled down) prime-order group.
Q == 5

\* Number of outcomes of a random draw that are explored.
MaxScalar == 2

\* Largest number of records kept of each kind of call result.
MaxInfos == 2
MaxRegs == 2
MaxUsrSessions == 2
MaxSvrSessions == 2
MaxForged == 1
\* Largest number of such records altogether.
MaxMsgs == 5

Sids == {"alice", "bob"}
Passwords == {"correct horse battery staple", "wrong horse"}

\* ------------------------------------------------------ group & primitives
Scalar == 1 .. (Q - 1)

\* new(ristretto.Element).ScalarBaseMult(k): g^k
ScalarBaseMult(k) == k % Q

\* new(ristretto.Element).ScalarMult(k, E): E^k
ScalarMult(k, E) == (k * E) % Q

\* new(ristretto.Scalar).Invert(r): 1/r mod Q (0 for r = 0)
Invert(r) == IF r % Q = 0 THEN 0 ELSE CHOOSE s \in Scalar : (s * r) % Q = 1

\* sha3.Sum512(data)
Sum512(data) == <<"sha3-512", data>>

\* sha3.Sum256(data)
Sum256(data) == <<"sha3-256", data>>

\* argon2.IDKey(h, nil, argonTime, argonMemory, 4, 32)
IDKey(h) == <<"argon2id", h>>

\* new(ristretto.Element).FromUniformBytes(x): the hash-to-group map H',
\* applied to x = sha3.Sum512(password).
FromUniformBytes(x) ==
    IF x[2] = "correct horse battery staple" THEN 2 % Q ELSE 3 % Q

\* randomScalar(): a call returns any scalar; the first MaxScalar are explored.
randomScalar == 1 .. MaxScalar

\* The results of the two randomScalar() calls of one operation that are
\* explored (two different scalars).
randomScalars2 == {<<n, n + 1>> : n \in 1 .. MaxScalar}

oprfA(x, k) ==
    LET hprimex == ScalarMult(k, FromUniformBytes(x))
    IN  IDKey(Sum512(<<x, hprimex>>))

\* oprfB raising B to r where it should raise it to 1/r.
oprfBNoInvert(B, r, x) ==
    LET betarinv == ScalarMult(r, B)
    IN  IDKey(Sum512(<<x, betarinv>>))

oprfB(B, r, x) ==
    LET rinv == Invert(r)
        betarinv == ScalarMult(rinv, B)
    IN  IDKey(Sum512(<<x, betarinv>>))

\* prf(k, x): keyed BLAKE2b-256
prf(k, x) == <<"blake2b-256", k, x>>

\* deriveHKDFKeys with a fixed input key in place of x.
deriveHKDFKeysFixed(x) ==
    LET zero == IDKey(Sum512(<<Sum512(""), 0>>))
    IN  [authKey |-> <<"hkdf-sha3-512", zero, 2>>,
         cipherKey |-> <<"hkdf-sha3-512", zero, 1>>]

\* deriveHKDFKeys(x): the first 32 bytes of the HKDF stream are the cipher
\* key, the next 32 the authentication key.
deriveHKDFKeys(x) ==
    [authKey |-> <<"hkdf-sha3-512", x, 2>>, cipherKey |-> <<"hkdf-sha3-512", x, 1>>]

keServer(ps, xs, Pu, Xu) ==
    LET xsPu == ScalarMult(xs, Pu)
        psXu == ScalarMult(ps, Xu)
        xsXu == ScalarMult(xs, Xu)
    IN  Sum256(<<xsPu, psXu, xsXu>>)

\* keUser hashing the first two shared elements in the other order.
keUserSwapped(pu, xu, Ps, Xs) ==
    LET puXs == ScalarMult(pu, Xs)
        xuPs == ScalarMult(xu, Ps)
        xuXs == ScalarMult(xu, Xs)
    IN  Sum256(<<xuPs, puXs, xuXs>>)

keUser(pu, xu, Ps, Xs) ==
    LET puXs == ScalarMult(pu, Xs)
        xuPs == ScalarMult(xu, Ps)
        xuXs == ScalarMult(xu, Xs)
    IN  Sum256(<<puXs, xuPs, xuXs>>)

\* ---------------------------------------------------------------- envelope
\* ciphertextData.MarshalJSON: the three encodings in the order pu, Pu, Ps.
MarshalJSON(pu, Pu, Ps) == <<pu, Pu, Ps>>

\* Bytes that are no JSON document.
Garbage == <<>>

\* ciphertextData.UnmarshalJSON succeeds on the three-field document only.
UnmarshalOK(data) == Len(data) = 3

\* cipher.NewCTR(block, zero iv).XORKeyStream on a plaintext: the key stream
\* of cipherKey added to the data.
Encrypt(cipherKey, data) == [key |-> cipherKey, data |-> data]

\* The same key stream applied to a ciphertext: it cancels when the keys
\* agree and leaves noise otherwise.
Decrypt(cipherKey, ctext) ==
    IF ctext.key = cipherKey THEN ctext.data ELSE Garbage

\* hmac.New(sha3.New256, hmacKey).Sum(b) with nothing written to the MAC:
\* hash.Hash.Sum APPENDS the digest of the data written so far (none) to b.
HmacSum(hmacKey, b) == [prefix |-> b, mac |-> <<"hmac-sha3-256", hmacKey, <<>>>>]

\* subtle.ConstantTimeCompare(a, b) = 1
ConstantTimeCompare(a, b) == a = b

\* ------------------------------------------------------------------- state
VARIABLES
    passwordFiles,         \* Server.passwordFiles: map sid -> pwdFile
    pendingRegistrations,  \* Server.pendingRegistrations: map sid -> pendingRegistration
    clients,               \* one Client per sid: map sid -> [xu, r] once NewSession ran
    infos,                 \* values returned by Server.NewRegistration, with their sid
    regs,                  \* calls of Client.NewRegistration: arguments and result
    usrSessions,           \* values returned by Client.NewSession
    svrSessions,           \* calls of Server.NewSession: request, response, server key
    forged,                \* server responses altered in transit
    ret,                   \* the last call: operation, arguments and results
    lastReg,               \* per sid, the last registration call the server handled
    registered,            \* per sid, the Client.NewRegistration call whose result was stored
    calc,                  \* a computation of the primitives alone: inputs and values so far
    procs                  \* goroutines inside Server.Register: position and locals

vars == <<passwordFiles, pendingRegistrations, clients, infos, regs, usrSessions,
          svrSessions, forged, ret, lastReg, registered, calc, procs>>

\* The number of call results and messages on record.
Recorded ==
    Cardinality(infos) + Cardinality(regs) + Cardinality(usrSessions)
        + Cardinality(svrSessions) + Cardinality(forged)

\* The log has room for the entry e (an entry it holds already takes none).
Room(log, e, max) == e \in log \/ (Cardinality(log) < max /\ Recorded < MaxMsgs)

\* Go maps as functions on the set of present keys.
EmptyMap == [k \in {} |-> {}]
Put(m, k, v) == [x \in (DOMAIN m) \cup {k} |-> IF x = k THEN v ELSE m[x]]
Delete(m, k) == [x \in (DOMAIN m) \ {k} |-> m[x]]


\* error values
NoError == "nil"
ErrNoPending == "no pending registration"
ErrDuplicate == "user already registered"
ErrNoSuchSid == "no such sid"
ErrInvalidTag == "invalid hmac tag on server-sent c"
ErrUnmarshal == "json: cannot unmarshal"
ErrServerAuth == "server authentication failed"

\* The record of a call. SK, fk2, sess and arg hold zero or one value
\* (the empty set is Go's nil).
Ret(op, sid, err, SK, fk2, sess, arg, pw) ==
    [op |-> op, sid |-> sid, err |-> err, SK |-> SK, fk2 |-> fk2,
     sess |-> sess, arg |-> arg, pw |-> pw]

\* No computation of the primitives alone, no goroutine inside a call.
Idle == <<>>

\* A new Server, new Clients, and nothing sent or returned yet.
Fresh ==
    /\ passwordFiles = EmptyMap
    /\ pendingRegistrations = EmptyMap
    /\ clients = EmptyMap
    /\ infos = {}
    /\ regs = {}
    /\ usrSessions = {}
    /\ svrSessions = {}
    /\ forged = {}
    /\ ret = Ret("NewServer", "", NoError, {}, {}, {}, {}, "")
    /\ lastReg = [s \in Sids |-> "none"]
    /\ registered = EmptyMap

Init == Fresh /\ calc = Idle /\ procs = Idle

\* -------------------------------------------------------------- operations
\* func (s *Server) NewRegistration(sid string) (*pendingRegistration, error)
ServerNewRegistration(sid, ks, ps) ==
    LET Ps == ScalarBaseMult(ps)
        info == [sid |-> sid, ks |-> ks, Ps |-> Ps]
    IN  /\ Room(infos, info, MaxInfos)
        /\ pendingRegistrations' =
               Put(pendingRegistrations, sid, [ks |-> ks, Ps |-> Ps, ps |-> ps])
        /\ infos' = infos \cup {info}
        /\ ret' = Ret("NewRegistration", sid, NoError, {}, {}, {}, {}, "")
        /\ lastReg' = [lastReg EXCEPT ![sid] = "begin"]
        /\ UNCHANGED <<passwordFiles, clients, regs, usrSessions, svrSessions, forged,
                       registered, calc, procs>>

\* Server.Register without the deferred delete: the pending entry outlives
\* the call.
RegisterResultNoDelete(pending, files, reg) ==
    IF reg.ID \notin DOMAIN pending
    THEN [err |-> ErrNoPending, pending |-> pending, files |-> files]
    ELSE IF reg.ID \in DOMAIN files
    THEN [err |-> ErrDuplicate, pending |-> pending, files |-> files]
    ELSE LET pr == pending[reg.ID]
             pf == [ks |-> pr.ks, ps |-> pr.ps, Ps |-> pr.Ps,
                    Pu |-> reg.Pu, c |-> reg.aci]
         IN  [err |-> NoError, pending |-> pending, files |-> Put(files, reg.ID, pf)]

\* Server.Register with the delete on the successful return only.
RegisterResultDeleteOnSuccess(pending, files, reg) ==
    IF reg.ID \notin DOMAIN pending
    THEN [err |-> ErrNoPending, pending |-> pending, files |-> files]
    ELSE IF reg.ID \in DOMAIN files
    THEN [err |-> ErrDuplicate, pending |-> pending, files |-> files]
    ELSE LET pr == pending[reg.ID]
             pf == [ks |-> pr.ks, ps |-> pr.ps, Ps |-> pr.Ps,
                    Pu |-> reg.Pu, c |-> reg.aci]
         IN  [err |-> NoError, pending |-> Delete(pending, reg.ID),
              files |-> Put(files, reg.ID, pf)]

\* Server.Register with the two checks in the other order.
RegisterResultFileFirst(pending, files, reg) ==
    IF reg.ID \in DOMAIN files
    THEN [err |-> ErrDuplicate, pending |-> Delete(pending, reg.ID), files |-> files]
    ELSE IF reg.ID \notin DOMAIN pending
    THEN [err |-> ErrNoPending, pending |-> pending, files |-> files]
    ELSE LET pr == pending[reg.ID]
             pf == [ks |-> pr.ks, ps |-> pr.ps, Ps |-> pr.Ps,
                    Pu |-> reg.Pu, c |-> reg.aci]
         IN  [err |-> NoError, pending |-> Delete(pending, reg.ID),
              files |-> Put(files, reg.ID, pf)]

\* Server.Register without the test for an existing password file.
RegisterResultNoDuplicateCheck(pending, files, reg) ==
    IF reg.ID \notin DOMAIN pending
    THEN [err |-> ErrNoPending, pending |-> pending, files |-> files]
    ELSE LET pr == pending[reg.ID]
             pf == [ks |-> pr.ks, ps |-> pr.ps, Ps |-> pr.Ps,
                    Pu |-> reg.Pu, c |-> reg.aci]
         IN  [err |-> NoError, pending |-> Delete(pending, reg.ID),
              files |-> Put(files, reg.ID, pf)]

\* The body of Server.Register on the maps pending and files: the error it
\* returns and the maps it leaves. The deferred delete runs on both returns
\* that follow it.
RegisterResult(pending, files, reg) ==
    IF reg.ID \notin DOMAIN pending
    THEN [err |-> ErrNoPending, pending |-> pending, files |-> files]
    ELSE IF reg.ID \in DOMAIN files
    THEN [err |-> ErrDuplicate, pending |-> Delete(pending, reg.ID), files |-> files]
    ELSE LET pr == pending[reg.ID]
             pf == [ks |-> pr.ks, ps |-> pr.ps, Ps |-> pr.Ps,
                    Pu |-> reg.Pu, c |-> reg.aci]
         IN  [err |-> NoError, pending |-> Delete(pending, reg.ID),
              files |-> Put(files, reg.ID, pf)]

\* func (s *Server) Register(reg *Registration) error, called with the result
\* of the Client.NewRegistration call e.
ServerRegister(e) ==
    LET sid == e.reg.ID
        res == RegisterResult(pendingRegistrations, passwordFiles, e.reg)
    IN  /\ pendingRegistrations' = res.pending
        /\ passwordFiles' = res.files
        /\ ret' = Ret("Register", sid, res.err, {}, {}, {}, {}, "")
        /\ lastReg' = [lastReg EXCEPT
                          ![sid] = IF res.err = NoError THEN "registered" ELSE "rejected"]
        /\ registered' = IF res.err = NoError
                         THEN Put(registered, sid,
                                  [password |-> e.password, sinfo |-> e.sinfo])
                         ELSE registered
        /\ UNCHANGED <<clients, infos, regs, usrSessions, svrSessions, forged, calc,
                       procs>>

\* The envelope Client.NewRegistration builds under rw.
Seal(rw, toencrypt) ==
    LET keys == deriveHKDFKeys(rw)
        ctext == Encrypt(keys.cipherKey, toencrypt)
        tag == HmacSum(keys.authKey, ctext)
    IN  [Tag |-> tag, Ciphertext |-> ctext]

\* The call Client.NewRegistration(sinfo, info.sid, password) that draws pu:
\* its result reg with the arguments it was made with.
NewRegistrationResult(info, password, pu) ==
    LET Pu == ScalarBaseMult(pu)
        x == Sum512(password)
        rw == oprfA(x, info.ks)
        aci == Seal(rw, MarshalJSON(pu, Pu, info.Ps))
        reg == [ID |-> info.sid, aci |-> aci, Pu |-> Pu]
    IN  [reg |-> reg, password |-> password,
         sinfo |-> [ks |-> info.ks, Ps |-> info.Ps]]

\* func (c *Client) NewRegistration(sinfo *pendingRegistration, username string,
\*     password string) (*Registration, error), called with a value the server
\* returned for the client's sid.
ClientNewRegistration(info, password, pu) ==
    LET e == NewRegistrationResult(info, password, pu)
    IN  /\ Room(regs, e, MaxRegs)
        /\ regs' = regs \cup {e}
        /\ ret' = Ret("ClientNewRegistration", info.sid, NoError, {}, {}, {}, {}, "")
        /\ UNCHANGED <<passwordFiles, pendingRegistrations, clients, infos,
                       usrSessions, svrSessions, forged, lastReg, registered, calc,
                       procs>>

\* Client.NewSession that keeps the xu and r of a session under way and
\* stores the new ones only in a Client that has none.
ClientNewSessionKeepsFirst(sid, password, xu, r) ==
    LET Xu == ScalarBaseMult(xu)
        x == Sum512(password)
        Alpha == ScalarMult(r, FromUniformBytes(x))
        session == [Alpha |-> Alpha, Xu |-> Xu, Sid |-> sid]
    IN  /\ Room(usrSessions, session, MaxUsrSessions)
        /\ clients' = IF sid \in DOMAIN clients THEN clients
                       ELSE Put(clients, sid, [xu |-> xu, r |-> r])
        /\ usrSessions' = usrSessions \cup {session}
        /\ ret' = Ret("ClientNewSession", sid, NoError, {}, {}, {}, {}, "")
        /\ UNCHANGED <<passwordFiles, pendingRegistrations, infos, regs, svrSessions,
                       forged, lastReg, registered, calc, procs>>

\* func (c *Client) NewSession(password string) (*UsrSession, error)
ClientNewSession(sid, password, xu, r) ==
    LET Xu == ScalarBaseMult(xu)
        x == Sum512(password)
        Alpha == ScalarMult(r, FromUniformBytes(x))
        session == [Alpha |-> Alpha, Xu |-> Xu, Sid |-> sid]
    IN  /\ Room(usrSessions, session, MaxUsrSessions)
        /\ clients' = Put(clients, sid, [xu |-> xu, r |-> r])
        /\ usrSessions' = usrSessions \cup {session}
        /\ ret' = Ret("ClientNewSession", sid, NoError, {}, {}, {}, {}, "")
        /\ UNCHANGED <<passwordFiles, pendingRegistrations, infos, regs, svrSessions,
                       forged, lastReg, registered, calc, procs>>

\* A copy-and-paste slip: the missing file is reported with the error of
\* Register.
NewSessionResultWrongError(files, session, xs) ==
    IF session.Sid \notin DOMAIN files
    THEN [err |-> ErrNoPending, sess |-> {}, SK |-> {}]
    ELSE LET pf == files[session.Sid]
             K == keServer(pf.ps, xs, pf.Pu, session.Xu)
         IN  [err |-> NoError, SK |-> {prf(K, 0)},
              sess |-> {[Beta |-> ScalarMult(pf.ks, session.Alpha),
                         Xs |-> ScalarBaseMult(xs), c |-> pf.c, fk1 |-> prf(K, 1)]}]

\* Server.NewSession with the static scalar ps where the ephemeral scalar xs
\* belongs in the key exchange.
NewSessionResultStaticKey(files, session, xs) ==
    IF session.Sid \notin DOMAIN files
    THEN [err |-> ErrNoSuchSid, sess |-> {}, SK |-> {}]
    ELSE LET pf == files[session.Sid]
             K == keServer(pf.ps, pf.ps, pf.Pu, session.Xu)
         IN  [err |-> NoError, SK |-> {prf(K, 0)},
              sess |-> {[Beta |-> ScalarMult(pf.ks, session.Alpha),
                         Xs |-> ScalarBaseMult(xs), c |-> pf.c, fk1 |-> prf(K, 1)]}]

\* The three results (*SvrSession, SK, err) of Server.NewSession on the map
\* files, with xs the scalar it draws.
NewSessionResult(files, session, xs) ==
    IF session.Sid \notin DOMAIN files
    THEN [err |-> ErrNoSuchSid, sess |-> {}, SK |-> {}]
    ELSE LET pf == files[session.Sid]
             Xs == ScalarBaseMult(xs)
             beta == ScalarMult(pf.ks, session.Alpha)
             K == keServer(pf.ps, xs, pf.Pu, session.Xu)
             SK == prf(K, 0)
             fk1 == prf(K, 1)
         IN  [err |-> NoError, SK |-> {SK},
              sess |-> {[Beta |-> beta, Xs |-> Xs, c |-> pf.c, fk1 |-> fk1]}]

\* Server.NewSession that tidies up on a login: it drops the pending
\* registration of the sid.
ServerNewSessionDropsPending(session, xs) ==
    LET res == NewSessionResult(passwordFiles, session, xs)
        calls == {[req |-> session, sess |-> sess, SK |-> SK] :
                      sess \in res.sess, SK \in res.SK}
    IN  /\ \A m \in calls : Room(svrSessions, m, MaxSvrSessions)
        /\ svrSessions' = svrSessions \cup calls
        /\ pendingRegistrations' = Delete(pendingRegistrations, session.Sid)
        /\ ret' = Ret("NewSession", session.Sid, res.err, res.SK, {}, res.sess, {}, "")
        /\ UNCHANGED <<passwordFiles, clients, infos, regs, usrSessions, forged,
                       lastReg, registered, calc, procs>>

\* func (s *Server) NewSession(session *UsrSession) (*SvrSession, []byte, error)
ServerNewSession(session, xs) ==
    LET res == NewSessionResult(passwordFiles, session, xs)
        calls == {[req |-> session, sess |-> sess, SK |-> SK] :
                      sess \in res.sess, SK \in res.SK}
    IN  /\ \A m \in calls : Room(svrSessions, m, MaxSvrSessions)
        /\ svrSessions' = svrSessions \cup calls
        /\ ret' = Ret("NewSession", session.Sid, res.err, res.SK, {}, res.sess, {}, "")
        /\ UNCHANGED <<passwordFiles, pendingRegistrations, clients, infos, regs,
                       usrSessions, forged, lastReg, registered, calc, procs>>

\* The three results (SK, fk2, err) of Client.SessionKey for the client
\* state cl, the server response session and the password.
SessionKeyResult(cl, session, password) ==
    LET x == Sum512(password)
        rw == oprfB(session.Beta, cl.r, x)
        keys == deriveHKDFKeys(rw)
    IN  IF ~ConstantTimeCompare(HmacSum(keys.authKey, session.c.Ciphertext),
                                session.c.Tag)
        THEN [SK |-> {}, fk2 |-> {}, err |-> ErrInvalidTag]
        ELSE LET caData == Decrypt(keys.cipherKey, session.c.Ciphertext)
             IN  IF ~UnmarshalOK(caData)
                 THEN [SK |-> {}, fk2 |-> {}, err |-> ErrUnmarshal]
                 ELSE LET K == keUser(caData[1], cl.xu, caData[3], session.Xs)
                          SK == prf(K, 0)
                          fk1 == prf(K, 1)
                      IN  IF ~ConstantTimeCompare(fk1, session.fk1)
                          THEN [SK |-> {}, fk2 |-> {}, err |-> ErrServerAuth]
                          ELSE [SK |-> {SK}, fk2 |-> {prf(K, 2)}, err |-> NoError]

\* func (c *Client) SessionKey(session *SvrSession, password string)
\*     ([]byte, []byte, error), on the client of sid with the response m.
\* Before NewSession c.r is nil and the call panics in oprfB; the client
\* state is left as it is.
ClientSessionKey(sid, m, password) ==
    /\ sid \in DOMAIN clients
    /\ m.req.Sid = sid
    /\ LET res == SessionKeyResult(clients[sid], m.sess, password)
       IN  ret' = Ret("SessionKey", sid, res.err, res.SK, res.fk2, {}, {m}, password)
    /\ UNCHANGED <<passwordFiles, pendingRegistrations, clients, infos, regs,
                   usrSessions, svrSessions, forged, lastReg, registered, calc,
                   procs>>

\* What a party on the wire that knows no key can do to a server response:
\*   "junk"      replace the ciphertext of the envelope by other bytes;
\*   "junk+tag"  the same, and rewrite the tag from the new ciphertext and
\*               the last 32 bytes of the genuine tag;
\*   "maul+tag"  add a difference to the AES-CTR ciphertext that turns the Ps
\*               field of the plaintext into another element, and rewrite
\*               the tag in the same way;
\*   "fk1"       alter the confirmation fk1;
\*   "beta"      replace the element Beta by another element of the group.
TamperModes == {"junk", "junk+tag", "maul+tag", "fk1", "beta"}

Tamper(m, mode) ==
    LET c == m.sess.c
        old == c.Ciphertext.data
        data == IF mode = "maul+tag" /\ UnmarshalOK(old)
                THEN MarshalJSON(old[1], old[2], (old[3] + 1) % Q)
                ELSE Garbage
        ctext == [key |-> c.Ciphertext.key, data |-> data]
        tag == IF mode = "junk" THEN c.Tag ELSE [prefix |-> ctext, mac |-> c.Tag.mac]
        f == CASE mode = "fk1" -> [m EXCEPT !.sess.fk1 = <<"altered", m.sess.fk1>>]
               [] mode = "beta" -> [m EXCEPT !.sess.Beta = (m.sess.Beta + 1) % Q]
               [] OTHER -> [m EXCEPT !.sess.c = [Tag |-> tag, Ciphertext |-> ctext]]
    IN  /\ Room(forged, f, MaxForged)
        /\ forged' = forged \cup {f}
        /\ ret' = Ret("Tamper", m.req.Sid, NoError, {}, {}, {}, {}, "")
        /\ UNCHANGED <<passwordFiles, pendingRegistrations, clients, infos, regs,
                       usrSessions, svrSessions, lastReg, registered, calc, procs>>

Next ==
    \/ \E sid \in Sids, d \in randomScalars2 : ServerNewRegistration(sid, d[1], d[2])
    \/ \E e \in regs : ServerRegister(e)
    \/ \E info \in infos, password \in Passwords, pu \in randomScalar :
           ClientNewRegistration(info, password, pu)
    \/ \E sid \in Sids, password \in Passwords, d \in randomScalars2 :
           ClientNewSession(sid, password, d[1], d[2])
    \/ \E session \in usrSessions, xs \in randomScalar : ServerNewSession(session, xs)
    \/ \E sid \in Sids, m \in svrSessions \cup forged, password \in Passwords :
           ClientSessionKey(sid, m, password)
    \/ \E m \in svrSessions, mode \in TamperModes : Tamper(m, mode)

Spec == Init /\ [][Next]_vars

\* ----------------------------------------------------- the OPRF on its own
\* The state of the Server, the Clients and the wire.
protocolVars == <<passwordFiles, pendingRegistrations, clients, infos, regs,
                  usrSessions, svrSessions, forged, ret, lastReg, registered>>

\* Every scalar of the group, zero included.
AllScalars == 0 .. (Q - 1)

\* One evaluation of the OPRF on a password hash x with the blinding scalar r
\* and the server key ks, both along the blinded path of a login and along
\* the direct path of a registration. A value not computed yet is the empty
\* set.
InitOprf ==
    /\ Fresh
    /\ procs = Idle
    /\ calc \in [x : {Sum512(p) : p \in Passwords}, r : AllScalars, ks : AllScalars,
                 Alpha : {{}}, Beta : {{}}, rwB : {{}}, rwA : {{}}]

\* Client.NewSession: Alpha = H'(x)^r
Blind ==
    /\ calc.Alpha = {}
    /\ calc' = [calc EXCEPT !.Alpha = {ScalarMult(calc.r, FromUniformBytes(calc.x))}]
    /\ UNCHANGED <<protocolVars, procs>>

\* Server.NewSession: beta = Alpha^ks
Evaluate ==
    /\ calc.Beta = {}
    /\ \E Alpha \in calc.Alpha :
           calc' = [calc EXCEPT !.Beta = {ScalarMult(calc.ks, Alpha)}]
    /\ UNCHANGED <<protocolVars, procs>>

\* Client.SessionKey: rw = oprfB(session.Beta, c.r, x)
Finalize ==
    /\ calc.rwB = {}
    /\ \E Beta \in calc.Beta :
           calc' = [calc EXCEPT !.rwB = {oprfB(Beta, calc.r, calc.x)}]
    /\ UNCHANGED <<protocolVars, procs>>

\* Client.NewRegistration: rw = oprfA(x, sinfo.ks)
Direct ==
    /\ calc.rwA = {}
    /\ calc' = [calc EXCEPT !.rwA = {oprfA(calc.x, calc.ks)}]
    /\ UNCHANGED <<protocolVars, procs>>

NextOprf == Blind \/ Evaluate \/ Finalize \/ Direct

SpecOprf == InitOprf /\ [][NextOprf]_vars

\* --------------------------------------------- the key exchange on its own
\* One key exchange: the server holds ps and the stored Pu = g^pu and draws
\* xs; the client draws xu and takes cpu and cPs out of the envelope it
\* opened (the registered pu and Ps = g^ps, or others). Xu and Xs go over the
\* wire as they are.
InitKe ==
    /\ Fresh
    /\ procs = Idle
    /\ calc \in [pu : AllScalars, xu : AllScalars, ps : AllScalars, xs : AllScalars,
                 cpu : AllScalars, cPs : {ScalarBaseMult(k) : k \in AllScalars},
                 Ks : {{}}, Ku : {{}}]

\* Server.NewSession: K := keServer(pf.ps, xs, pf.Pu, session.Xu)
ServerKey ==
    /\ calc.Ks = {}
    /\ calc' = [calc EXCEPT !.Ks = {keServer(calc.ps, calc.xs, ScalarBaseMult(calc.pu),
                                             ScalarBaseMult(calc.xu))}]
    /\ UNCHANGED <<protocolVars, procs>>

\* Client.SessionKey: K := keUser(ca.pu, c.xu, ca.Ps, session.Xs)
UserKey ==
    /\ calc.Ku = {}
    /\ calc' = [calc EXCEPT !.Ku = {keUser(calc.cpu, calc.xu, calc.cPs,
                                           ScalarBaseMult(calc.xs))}]
    /\ UNCHANGED <<protocolVars, procs>>

NextKe == ServerKey \/ UserKey

SpecKe == InitKe /\ [][NextKe]_vars

\* ------------------------------------------- Server.Register, concurrently
\* The Server holds no lock: two goroutines that call Register on one Server
\* interleave at the accesses to its maps. Each goroutine is at one of
\*   "lookup"  before pendingRegistrations[reg.ID] is read,
\*   "check"   before passwordFiles[reg.ID] is read,
\*   "store"   before passwordFiles[reg.ID] is written,
\*   "delete"  before the deferred delete (the result is fixed already),
\*   "done"    returned,
\*   "fatal"   the process was ended by the runtime.
RegisterCalls == {1, 2}

\* Server.NewRegistration(sid) has returned info, two clients have built a
\* Registration each from it, and two goroutines are about to call Register;
\* the sid may have a password file from an earlier registration.
InitRace ==
    \E sid \in Sids, d \in randomScalars2, had \in BOOLEAN,
       pw \in [RegisterCalls -> Passwords], pu \in [RegisterCalls -> randomScalar] :
        LET Ps == ScalarBaseMult(d[2])
            info == [sid |-> sid, ks |-> d[1], Ps |-> Ps]
            call == [p \in RegisterCalls |-> NewRegistrationResult(info, pw[p], pu[p])]
            earlier == [ks |-> d[2], ps |-> d[1], Ps |-> ScalarBaseMult(d[1]),
                        Pu |-> call[1].reg.Pu, c |-> call[1].reg.aci]
        IN  /\ pendingRegistrations = Put(EmptyMap, sid, [ks |-> d[1], Ps |-> Ps, ps |-> d[2]])
            /\ passwordFiles = IF had THEN Put(EmptyMap, sid, earlier) ELSE EmptyMap
            /\ clients = EmptyMap
            /\ infos = {info}
            /\ regs = {call[p] : p \in RegisterCalls}
            /\ usrSessions = {}
            /\ svrSessions = {}
            /\ forged = {}
            /\ ret = Ret("ClientNewRegistration", sid, NoError, {}, {}, {}, {}, "")
            /\ lastReg = [s \in Sids |-> IF s = sid THEN "begin" ELSE "none"]
            /\ registered = EmptyMap
            /\ calc = Idle
            /\ procs = [p \in RegisterCalls |->
                           [pc |-> "lookup", reg |-> call[p].reg,
                            pendingRegistration |-> {}, err |-> {}]]

\* pendingRegistration, exists := s.pendingRegistrations[reg.ID]
RegisterLookup(p) ==
    LET me == procs[p]
    IN  /\ me.pc = "lookup"
        /\ procs' = [procs EXCEPT ![p] =
               IF me.reg.ID \in DOMAIN pendingRegistrations
               THEN [me EXCEPT !.pc = "check",
                               !.pendingRegistration = {pendingRegistrations[me.reg.ID]}]
               ELSE [me EXCEPT !.pc = "done", !.err = {ErrNoPending}]]
        /\ UNCHANGED <<protocolVars, calc>>

\* if _, exists = s.passwordFiles[reg.ID]; exists
RegisterCheck(p) ==
    LET me == procs[p]
    IN  /\ me.pc = "check"
        /\ procs' = [procs EXCEPT ![p] =
               IF me.reg.ID \in DOMAIN passwordFiles
               THEN [me EXCEPT !.pc = "delete", !.err = {ErrDuplicate}]
               ELSE [me EXCEPT !.pc = "store"]]
        /\ UNCHANGED <<protocolVars, calc>>

\* s.passwordFiles[reg.ID] = pf; return nil
RegisterStore(p) ==
    LET me == procs[p]
    IN  /\ me.pc = "store"
        /\ \E pr \in me.pendingRegistration :
               passwordFiles' = Put(passwordFiles, me.reg.ID,
                                    [ks |-> pr.ks, ps |-> pr.ps, Ps |-> pr.Ps,
                                     Pu |-> me.reg.Pu, c |-> me.reg.aci])
        /\ procs' = [procs EXCEPT ![p] = [me EXCEPT !.pc = "delete", !.err = {NoError}]]
        /\ UNCHANGED <<pendingRegistrations, clients, infos, regs, usrSessions,
                       svrSessions, forged, ret, lastReg, registered, calc>>

\* defer delete(s.pendingRegistrations, reg.ID)
RegisterDelete(p) ==
    LET me == procs[p]
    IN  /\ me.pc = "delete"
        /\ pendingRegistrations' = Delete(pendingRegistrations, me.reg.ID)
        /\ procs' = [procs EXCEPT ![p] = [me EXCEPT !.pc = "done"]]
        /\ UNCHANGED <<passwordFiles, clients, infos, regs, usrSessions,
                       svrSessions, forged, ret, lastReg, registered, calc>>

\* The map a goroutine at pc is about to write, and the map it is about to
\* access at all.
Writes(pc) ==
    CASE pc = "store" -> {"passwordFiles"}
      [] pc = "delete" -> {"pendingRegistrations"}
      [] OTHER -> {}

Accesses(pc) ==
    CASE pc = "lookup" -> {"pendingRegistrations"}
      [] pc = "check" -> {"passwordFiles"}
      [] OTHER -> Writes(pc)

\* Two goroutines are at one map and one of them writes it: a data race. The
\* Go runtime may detect it and end the process ("fatal error: concurrent
\* map writes", "concurrent map read and map write"); when it does not, the
\* accesses take effect in some order, which the four steps above give.
ConcurrentMapFault ==
    /\ \E p \in RegisterCalls, q \in RegisterCalls :
           p # q /\ Writes(procs[p].pc) \cap Accesses(procs[q].pc) # {}
    /\ procs' = [p \in RegisterCalls |-> [procs[p] EXCEPT !.pc = "fatal"]]
    /\ UNCHANGED <<protocolVars, calc>>

NextRace ==
    \/ \E p \in RegisterCalls : RegisterLookup(p)
    \/ \E p \in RegisterCalls : RegisterCheck(p)
    \/ \E p \in RegisterCalls : RegisterStore(p)
    \/ \E p \in RegisterCalls : RegisterDelete(p)
    \/ ConcurrentMapFault

SpecRace == InitRace /\ [][NextRace]_vars

\* ------------------------------------------------------------------ claims
\* The UsrSession the client of sid sent when it last ran NewSession, had it
\* run with password.
CurrentRequest(sid, password) ==
    [Alpha |-> ScalarMult(clients[sid].r, FromUniformBytes(Sum512(password))),
     Xu |-> ScalarBaseMult(clients[sid].xu),
     Sid |-> sid]

\* The file of sid was stored from a Registration that the client built with
\* password from the very values the finalised NewRegistration(sid) returned.
RegisteredWith(sid, password) ==
    /\ sid \in DOMAIN passwordFiles
    /\ registered[sid].password = password
    /\ registered[sid].sinfo =
           [ks |-> passwordFiles[sid].ks, Ps |-> passwordFiles[sid].Ps]

\* The last call is Client.SessionKey(m.sess, ret.pw) and completes the login
\* NewSession(ret.pw) -> Server.NewSession -> SessionKey: m is the server's
\* own response to the client's current request.
LoginCompleted(m) ==
    /\ ret.op = "SessionKey"
    /\ m \in ret.arg
    /\ m \in svrSessions
    /\ m.req = CurrentRequest(ret.sid, ret.pw)

\* C1 (honest correctness): when a sid was registered with pw through
\* NewRegistration, Client.NewRegistration on the returned values and a
\* successful Register, a login with pw ends without error and
\* Client.SessionKey returns the session key Server.NewSession returned,
\* whatever happened to other sids in between.
C1_HonestCorrectness ==
    \A m \in ret.arg :
        (LoginCompleted(m) /\ RegisteredWith(ret.sid, ret.pw))
            => (ret.err = NoError /\ ret.SK = {m.SK})

\* An honest login of one sid has completed while a registration of the
\* other sid is under way.
C1_Witness ==
    \E m \in ret.arg :
        /\ LoginCompleted(m) /\ RegisteredWith(ret.sid, ret.pw)
        /\ ret.err = NoError /\ ret.SK = {m.SK}
        /\ \E other \in Sids \ {ret.sid} : other \in DOMAIN pendingRegistrations

\* C2 (wrong password): a login of a sid whose file was stored for password
\* pw, run by the client with another password in NewSession and SessionKey,
\* ends with Client.SessionKey returning an error, no session key and no fk2,
\* although Server.NewSession returned a key.
C2_WrongPassword ==
    \A m \in ret.arg :
        (/\ LoginCompleted(m)
         /\ ret.sid \in DOMAIN registered
         /\ registered[ret.sid].password # ret.pw)
            => (ret.err # NoError /\ ret.SK = {} /\ ret.fk2 = {})

C2_Witness ==
    \E m \in ret.arg :
        /\ LoginCompleted(m)
        /\ RegisteredWith(ret.sid, registered[ret.sid].password)
        /\ registered[ret.sid].password # ret.pw
        /\ ret.err # NoError /\ ret.SK = {}

\* The step is a call of Server.Register for a sid whose last registration
\* call was a successful Register: the second of two Register calls that
\* follow one NewRegistration.
SecondRegister == ret'.op = "Register" /\ lastReg[ret'.sid] = "registered"

\* The step is a call of Server.Register that follows a NewRegistration for
\* a sid without a password file.
FirstRegister ==
    /\ ret'.op = "Register"
    /\ lastReg[ret'.sid] = "begin"
    /\ ret'.sid \notin DOMAIN passwordFiles

\* C3 as claimed (duplicate finalize): of two Register calls after one
\* NewRegistration(sid), the first succeeds and the second returns the
\* duplicate-registration error.
C3_SecondRegisterIsDuplicate ==
    [][/\ FirstRegister => ret'.err = NoError
       /\ SecondRegister => ret'.err = ErrDuplicate]_vars

\* C3 as amended: of two Register calls after one NewRegistration(sid), the
\* first succeeds and the second returns the no-pending-registration error,
\* the first having deleted the pending entry.
C3_SecondRegisterHasNoPending ==
    [][/\ FirstRegister => ret'.err = NoError
       /\ SecondRegister => ret'.err = ErrNoPending]_vars

\* A Register call was refused for want of a pending entry on a registered
\* sid whose registration had not been begun again.
C3_Witness ==
    /\ ret.op = "Register" /\ ret.err = ErrNoPending
    /\ ret.sid \in DOMAIN passwordFiles
    /\ lastReg[ret.sid] = "rejected"
    /\ \A info \in infos : info.sid = ret.sid =>
           info = [sid |-> ret.sid, ks |-> passwordFiles[ret.sid].ks,
                   Ps |-> passwordFiles[ret.sid].Ps]

\* C4 (begin on an existing record): Server.NewRegistration(sid) for a sid
\* that has a password file or a pending registration returns an error and
\* leaves pendingRegistrations as it was.
C4_BeginFailsOnExistingRecord ==
    [][(/\ ret'.op = "NewRegistration"
        /\ \/ ret'.sid \in DOMAIN passwordFiles
           \/ ret'.sid \in DOMAIN pendingRegistrations)
           => (ret'.err # NoError /\ pendingRegistrations' = pendingRegistrations)]_vars

\* The envelope c opens under rw: the tag check of Client.SessionKey passes
\* and the decrypted bytes parse.
Opens(rw, c) ==
    LET keys == deriveHKDFKeys(rw)
    IN  /\ ConstantTimeCompare(HmacSum(keys.authKey, c.Ciphertext), c.Tag)
        /\ UnmarshalOK(Decrypt(keys.cipherKey, c.Ciphertext))

\* C5 (password-file invariant): every entry of passwordFiles has Ps = g^ps
\* and an envelope that opens under the rw which the OPRF with the entry's
\* own ks gives for the registering client's password.
C5_PasswordFileInvariant ==
    \A sid \in DOMAIN passwordFiles :
        LET pf == passwordFiles[sid]
        IN  /\ pf.Ps = ScalarBaseMult(pf.ps)
            /\ Opens(oprfA(Sum512(registered[sid].password), pf.ks), pf.c)

\* C6 (opaque client failure): failing calls of Client.SessionKey return one
\* and the same error value; stated of two calls in a row.
C6_OneClientError ==
    [][(/\ ret.op = "SessionKey" /\ ret.err # NoError
        /\ ret'.op = "SessionKey" /\ ret'.err # NoError)
           => ret'.err = ret.err]_vars

\* C7 (envelope integrity): the tag check of Client.SessionKey lets an
\* envelope pass only if its (tag, ciphertext) pair was sealed by
\* Client.NewRegistration; one altered on the wire is refused there.
C7_TagCheckAcceptsSealedOnly ==
    \A m \in ret.arg :
        (ret.op = "SessionKey" /\ ret.err # ErrInvalidTag)
            => m.sess.c \in {e.reg.aci : e \in regs}

\* C8 (finalize without begin): Server.Register for an ID without a pending
\* entry returns the no-pending-registration error and changes neither map.
C8_RegisterWithoutPending ==
    [][(ret'.op = "Register" /\ ret'.sid \notin DOMAIN pendingRegistrations)
           => /\ ret'.err = ErrNoPending
              /\ UNCHANGED <<passwordFiles, pendingRegistrations>>]_vars

C8_Witness ==
    /\ ret.op = "Register" /\ ret.err = ErrNoPending
    /\ ret.sid \notin DOMAIN pendingRegistrations

\* C9 (unknown user): Server.NewSession for a Sid without a password file
\* returns the error "no such sid", no SvrSession and no session key, also
\* when the sid has a pending registration.
C9_UnknownSid ==
    [][(ret'.op = "NewSession" /\ ret'.sid \notin DOMAIN passwordFiles)
           => (ret'.err = ErrNoSuchSid /\ ret'.sess = {} /\ ret'.SK = {})]_vars

C9_Witness ==
    /\ ret.op = "NewSession" /\ ret.err = ErrNoSuchSid
    /\ ret.sid \notin DOMAIN passwordFiles
    /\ ret.sid \in DOMAIN pendingRegistrations

\* C10 (pending-registration lifecycle): after a Register call returns, with
\* or without an error, its ID has no pending entry; and a sid has a pending
\* entry exactly when the last registration call for it was NewRegistration.
C10_PendingLifecycle ==
    /\ ret.op = "Register" => ret.sid \notin DOMAIN pendingRegistrations
    /\ \A sid \in Sids :
           sid \in DOMAIN pendingRegistrations <=> lastReg[sid] = "begin"

\* A Register call that returned the duplicate error has removed the entry.
C10_Witness ==
    /\ ret.op = "Register" /\ ret.err = ErrDuplicate
    /\ ret.sid \notin DOMAIN pendingRegistrations

\* The response m answers the current request of the client of the last
\* Client.SessionKey call, and its Beta is not the element alpha^ks the
\* server computes from that request.
BetaAltered(m) ==
    /\ ret.op = "SessionKey"
    /\ m \in ret.arg
    /\ m.req = CurrentRequest(ret.sid, ret.pw)
    /\ ret.sid \in DOMAIN passwordFiles
    /\ m.sess.Beta # ScalarMult(passwordFiles[ret.sid].ks, m.req.Alpha)

\* C11 (tampered server response): in a login with the registered password,
\* when the Beta handed to Client.SessionKey is not the element the server
\* computed (alpha^ks), Client.SessionKey returns an error and no session key.
C11_TamperedBeta ==
    \A m \in ret.arg :
        (BetaAltered(m) /\ RegisteredWith(ret.sid, ret.pw))
            => (ret.err # NoError /\ ret.SK = {})

\* Such a call was made with a response that is genuine but for its Beta.
C11_Witness ==
    \E m \in ret.arg, g \in svrSessions :
        /\ BetaAltered(m) /\ RegisteredWith(ret.sid, ret.pw)
        /\ m = [g EXCEPT !.sess.Beta = m.sess.Beta]
        /\ ret.err # NoError /\ ret.SK = {}

\* C12 (OPRF determinism): for every password hash x, every blinding scalar
\* r other than zero and every server key ks, the blinded path
\* oprfB(ks * (r * H'(x)), r, x) of a login gives the rw that the direct path
\* oprfA(x, ks) of a registration gives, whatever r is.
C12_OprfDeterminism ==
    calc.r # 0 => \A rwB \in calc.rwB, rwA \in calc.rwA : rwB = rwA

\* Both paths were computed, with a blinding scalar that is not its own
\* inverse and a server key that is neither zero nor one.
C12_Witness ==
    /\ calc.r \notin {0, 1, Q - 1}
    /\ calc.ks \notin {0, 1}
    /\ calc.rwA # {} /\ calc.rwB = calc.rwA

\* C13 (replay): when Server.NewSession answers a UsrSession it has answered
\* before, with another draw of xs, the new response differs from every
\* earlier one to the same UsrSession in the session key, in Xs and in fk1,
\* and the call leaves the state of the server as it was. (Two draws of xs
\* agree with probability 2^-252 in the group of the program.)
C13_ReplayGivesFreshKey ==
    [][\A new \in svrSessions' \ svrSessions : \A old \in svrSessions :
           old.req = new.req
               => /\ new.SK # old.SK
                  /\ new.sess.Xs # old.sess.Xs
                  /\ new.sess.fk1 # old.sess.fk1
                  /\ UNCHANGED <<passwordFiles, pendingRegistrations>>]_vars

\* The last call was a replay: the server has answered one UsrSession twice.
C13_Witness ==
    /\ ret.op = "NewSession" /\ ret.err = NoError
    /\ \E old \in svrSessions, new \in svrSessions :
           /\ old.req = new.req /\ old # new
           /\ {new.sess} = ret.sess /\ {new.SK} = ret.SK

\* The Register call of goroutine p has returned err.
Returned(p, err) == procs[p].pc = "done" /\ procs[p].err = {err}

\* C15 (atomic check-and-insert): of two concurrent Server.Register calls
\* for one sid that race on one pending entry, at most one returns success,
\* and once both have returned, passwordFiles[sid] is the entry built from
\* the registration of the call that returned success.
C15_AtomicCheckAndInsert ==
    /\ Cardinality({p \in RegisterCalls : Returned(p, NoError)}) <= 1
    /\ \A p \in RegisterCalls :
           (Returned(p, NoError) /\ \A q \in RegisterCalls : procs[q].pc = "done")
               => /\ procs[p].reg.ID \in DOMAIN passwordFiles
                  /\ passwordFiles[procs[p].reg.ID].Pu = procs[p].reg.Pu
                  /\ passwordFiles[procs[p].reg.ID].c = procs[p].reg.aci

\* C16 (client session consumption): Client.SessionKey consumes the session
\* Client.NewSession created, so a second Client.SessionKey call of the same
\* client with the same SvrSession, with no Client.NewSession in between,
\* returns no session key, whether the first call returned a key or an error.
C16_SessionConsumed ==
    [][(/\ ret.op = "SessionKey"
        /\ ret'.op = "SessionKey"
        /\ ret'.sid = ret.sid
        /\ ret'.arg = ret.arg)
           => ret'.SK = {}]_vars

\* HMAC-SHA3-256 under hmacKey with data written to it: the 32-byte digest.
\* (HmacSum's digest is the one with nothing written, <<>>.)
HmacOver(hmacKey, data) == <<"hmac-sha3-256", hmacKey, <<data>>>>

\* C17 (envelope tag construction): the Tag of every envelope that
\* Client.NewRegistration produced is the 32-byte HMAC-SHA3-256, keyed by the
\* authKey of deriveHKDFKeys(rw), of the ciphertext: no byte precedes the
\* digest, and the digest is computed over the ciphertext.
C17_TagIsHmacOfCiphertext ==
    \A e \in regs :
        LET rw == oprfA(Sum512(e.password), e.sinfo.ks)
            aci == e.reg.aci
        IN  /\ aci.Tag.prefix \notin {aci.Ciphertext}
            /\ aci.Tag.mac = HmacOver(deriveHKDFKeys(rw).authKey, aci.Ciphertext)

\* C18 (password-file immutability): once Server.Register has stored the
\* file of a sid, every later operation (Server.NewRegistration,
\* Server.Register with any registration, Server.NewSession, and the calls of
\* the clients) leaves passwordFiles[sid] with exactly that value, and no
\* later Server.NewSession for the sid returns the unknown-user error.
C18_PasswordFileImmutable ==
    [][\A sid \in DOMAIN passwordFiles :
           /\ sid \in DOMAIN passwordFiles'
           /\ passwordFiles'[sid] = passwordFiles[sid]
           /\ (ret'.op = "NewSession" /\ ret'.sid = sid) => ret'.err # ErrNoSuchSid]_vars

\* Register has refused, after a second NewRegistration for a registered
\* sid, a registration that differs from the stored one.
C18_Witness ==
    /\ ret.op = "Register" /\ ret.err = ErrDuplicate
    /\ ret.sid \in DOMAIN passwordFiles
    /\ \E e \in regs :
           /\ e.reg.ID = ret.sid
           /\ e.sinfo.ks # passwordFiles[ret.sid].ks
           /\ e.reg.aci # passwordFiles[ret.sid].c

\* The client of the key exchange uses the registered pu and the server's Ps.
KeMatches ==
    /\ ScalarBaseMult(calc.cpu) = ScalarBaseMult(calc.pu)
    /\ calc.cPs = ScalarBaseMult(calc.ps)

\* Both sides hash the three shared elements in the order Pu*xs, Xu*ps, Xu*xs.
KeAgrees ==
    \A Ks \in calc.Ks, Ku \in calc.Ku :
        /\ Ks = Ku
        /\ Ku = Sum256(<<ScalarMult(calc.xs, ScalarBaseMult(calc.pu)),
                         ScalarMult(calc.ps, ScalarBaseMult(calc.xu)),
                         ScalarMult(calc.xs, ScalarBaseMult(calc.xu))>>)

\* C19 as claimed (key-exchange agreement): for all scalars pu, xu, ps, xs,
\* keServer(ps, xs, g^pu, g^xu) equals keUser(pu, xu, g^ps, g^xs), both hashing
\* the shared elements in the order Pu*xs, Xu*ps, Xu*xs; and the two differ
\* when the client uses a pu or a Ps that does not match the server's Pu or ps.
C19_KeyExchangeAgreement ==
    /\ KeMatches => KeAgrees
    /\ ~KeMatches => \A Ks \in calc.Ks, Ku \in calc.Ku : Ks # Ku

\* The client's pu does not match and xs is not zero, or the client's Ps
\* does not match and xu is not zero.
KeMismatchShows ==
    \/ (ScalarBaseMult(calc.cpu) # ScalarBaseMult(calc.pu) /\ calc.xs # 0)
    \/ (calc.cPs # ScalarBaseMult(calc.ps) /\ calc.xu # 0)

\* C19 as amended: the keys agree for all scalars when pu and Ps match; they
\* differ when the client's pu does not match and xs is not zero, and when
\* the client's Ps does not match and xu is not zero.
C19_KeyExchangeAgreementNonZero ==
    /\ KeMatches => KeAgrees
    /\ KeMismatchShows => \A Ks \in calc.Ks, Ku \in calc.Ku : Ks # Ku

\* Both keys were computed from matching values, with four different
\* non-zero scalars.
C19_Witness ==
    /\ KeMatches
    /\ Cardinality({calc.pu, calc.xu, calc.ps, calc.xs}) = 4
    /\ 0 \notin {calc.pu, calc.xu, calc.ps, calc.xs}
    /\ calc.Ks # {} /\ calc.Ks = calc.Ku

\* C20 (stateless login on the server): Server.NewSession, whether it
\* succeeds or fails, leaves passwordFiles and pendingRegistrations as they
\* were; the Server has no other field, so nothing of the login (xs, SK, fk1,
\* the expected fk2) stays in it.
C20_NewSessionKeepsNothing ==
    [][ret'.op = "NewSession"
           => UNCHANGED <<passwordFiles, pendingRegistrations>>]_vars

\* Server.NewSession has answered a login for a registered sid that has a
\* pending registration as well.
C20_Witness ==
    /\ ret.op = "NewSession" /\ ret.err = NoError /\ ret.SK # {}
    /\ ret.sid \in DOMAIN passwordFiles
    /\ ret.sid \in DOMAIN pendingRegistrations

\* The last call is Client.SessionKey(m.sess, ret.pw) of a client registered
\* with ret.pw, and m is the server's response to a UsrSession of that
\* client which a later Client.NewSession has superseded.
StaleResponse(m) ==
    /\ ret.op = "SessionKey"
    /\ m \in ret.arg
    /\ m \in svrSessions
    /\ m.req \in usrSessions
    /\ m.req # CurrentRequest(ret.sid, ret.pw)
    /\ RegisteredWith(ret.sid, ret.pw)

\* C21 (one client session at a time): Client.NewSession replaces the xu and
\* r the Client holds by those of the UsrSession it returns; with the
\* registered password, Client.SessionKey then rejects the server's response
\* to an earlier UsrSession with an error and no session key, and accepts
\* the response to the latest one.
C21_OneClientSession ==
    [][/\ \A new \in usrSessions' \ usrSessions :
              \E password \in Passwords : new = CurrentRequest(new.Sid, password)'
       /\ \A m \in ret'.arg :
              /\ StaleResponse(m)' => (ret'.err # NoError /\ ret'.SK = {})
              /\ (LoginCompleted(m) /\ RegisteredWith(ret.sid, ret.pw))'
                     => (ret'.err = NoError /\ ret'.SK # {})]_vars

\* The response to the first of two UsrSessions of one client was rejected.
C21_Witness ==
    \E m \in ret.arg :
        /\ StaleResponse(m)
        /\ CurrentRequest(ret.sid, ret.pw) \in usrSessions
        /\ ret.err # NoError /\ ret.SK = {}

\* The response to the second of two UsrSessions of one client was accepted.
C21_LatestAccepted ==
    \E m \in ret.arg :
        /\ LoginCompleted(m) /\ RegisteredWith(ret.sid, ret.pw)
        /\ \E first \in usrSessions : first.Sid = ret.sid /\ first # m.req
        /\ ret.err = NoError /\ ret.SK # {}

====
